---- MODULE Spec2Model ----
(***************************************************************************)
(* Model of sim/sim2sim/mujoco/old/old_sim2sim.py: the sim-to-sim control  *)
(* loop (run_simulation), the controller (Controller), the policy wrapper  *)
(* (PolicyWrapper), the simulator initialisation (MujocoSimulator) and the *)
(* configuration (Sim2simCfg).                                             *)
(*                                                                         *)
(* Numbers: every float of the program is a fixed-point integer counted in *)
(* hundredths (One = 1.0).  Values are finite; a float NaN has no          *)
(* counterpart here.  Vectors are sequences, indexed from 1 (numpy index i *)
(* is position i + 1).                                                     *)
(***************************************************************************)
EXTENDS Integers, Sequences, FiniteSets, TLC

\* ------------------------------------------------------------------ bounds
\* Largest sim_duration and dt a configuration draws (hundredths of a second),
\* and the frame-stack depth of the configurations checked.
MaxSimDuration == 5
MaxDt == 2
StackDepth == 2

\* ------------------------------------------------------- numeric helpers
\* The float 1.0.
One == 100
\* math.pi, to the model's precision.
Pi == 314

Abs(x) == IF x < 0 THEN -x ELSE x
Min(a, b) == IF a <= b THEN a ELSE b
Max(a, b) == IF a >= b THEN a ELSE b

\* Python's int(): the quotient a / b of two non-negative numbers with the
\* fraction dropped.
IntDiv(a, b) == a \div b

\* The product of two fixed-point numbers, rounded towards zero.
FMul(a, b) == IF a * b >= 0 THEN (a * b) \div One ELSE -((-(a * b)) \div One)

\* The sequence with the entries of f, a function on 1..n.
Vec(f) == f \o <<>>
Zeros(n) == Vec([i \in 1..n |-> 0])
\* numpy's negative slice a[-n:]: the last n entries (all of a when it is shorter).
LastN(s, n) == SubSeq(s, Max(1, Len(s) - n + 1), Len(s))
\* The sequences of ss, one after the other.
RECURSIVE Flatten(_)
Flatten(ss) == IF ss = <<>> THEN <<>> ELSE Head(ss) \o Flatten(Tail(ss))

\* np.clip on one number.
ClipMutantNoUpper(x, lo, hi) == IF x < lo THEN lo ELSE x
Clip(x, lo, hi) == IF x < lo THEN lo ELSE IF x > hi THEN hi ELSE x
\* np.clip of a vector to scalar bounds.
ClipVec(v, lo, hi) == Vec([i \in 1..Len(v) |-> Clip(v[i], lo, hi)])

\* numpy broadcasting of one-dimensional operands with the lengths `lens`: they
\* broadcast together when all the lengths other than 1 are equal, and the result
\* then has that length (1 when every operand has one entry).
Broadcasts(lens) == Cardinality({l \in lens : l # 1}) <= 1
BroadcastLen(lens) == IF lens = {1} THEN 1 ELSE CHOOSE l \in lens : l # 1
\* Entry i of an operand (0-based: numpy's index) once broadcast.
At(v, i) == IF Len(v) = 1 THEN v[1] ELSE v[i + 1]
VSub(a, b) == Vec([i \in 1..BroadcastLen({Len(a), Len(b)}) |-> At(a, i - 1) - At(b, i - 1)])
VScale(a, k) == Vec([i \in 1..Len(a) |-> FMul(a[i], k)])

\* a[lo:hi] of an array of `len` entries holds the indices lo .. min(hi, len) - 1.
SliceLen(len, lo, hi) == Max(0, Min(hi, len) - Min(lo, len))
InSlice(len, lo, hi, i) == lo <= i /\ i < Min(hi, len)
\* a[lo:hi] = v needs v to have the slice's length or one entry (broadcast), else
\* it raises ValueError.
SliceAssignOk(len, lo, hi, v) == Len(v) = SliceLen(len, lo, hi) \/ Len(v) = 1
SliceAssign(a, lo, hi, v) ==
    Vec([i \in 1..Len(a) |->
            IF InSlice(Len(a), lo, hi, i - 1) THEN At(v, i - 1 - lo) ELSE a[i]])

\* ------------------------------------------------- the robot description
\* load_embodiment(embodiment): a two-joint robot whose per-joint tables
\* (effort, stiffness, damping) hold one entry per mirrored joint kind.
Robot ==
    [all_joints |-> <<"left_knee", "right_knee">>,
     default_standing |-> <<50, -50>>,
     effort |-> <<100>>,
     stiffness |-> <<200>>,
     damping |-> <<10>>]

\* ---------------------------------------------------------- Sim2simCfg
\* The defaults of Sim2simCfg.__init__.
cycle_time == 4
tau_factor == 300
lin_vel == 200
ang_vel == 100
dof_pos == 100
dof_vel == 5
clip_observations == 1800
clip_actions == 1800
action_scale == 25

NumSingleObs(num_actions, c_frame_stack) == 11 + num_actions * c_frame_stack

Sim2simCfg(frame_stack, c_frame_stack, sim_duration, dt, decimation) ==
    LET num_actions == Len(Robot.all_joints)
        num_single_obs == NumSingleObs(num_actions, c_frame_stack)
    IN  [num_actions |-> num_actions,
         frame_stack |-> frame_stack,
         c_frame_stack |-> c_frame_stack,
         num_single_obs |-> num_single_obs,
         num_observations |-> frame_stack * num_single_obs,
         sim_duration |-> sim_duration,
         dt |-> dt,
         decimation |-> decimation,
         cycle_time |-> cycle_time,
         tau_limit |-> VScale(Robot.effort \o Robot.effort, tau_factor),
         kps |-> Robot.stiffness \o Robot.stiffness,
         kds |-> Robot.damping \o Robot.damping,
         lin_vel |-> lin_vel,
         ang_vel |-> ang_vel,
         dof_pos |-> dof_pos,
         dof_vel |-> dof_vel,
         clip_observations |-> clip_observations,
         clip_actions |-> clip_actions,
         action_scale |-> action_scale]

\* ------------------------------------------- the external collaborators
\* What simulator.get_state() can return: q and dq are sized to the model's
\* degrees of freedom (one base coordinate here), the actuated joints last;
\* quat is (x, y, z, w).  The first is the robot standing still in its default
\* pose, the second a state whose every reading exceeds the observation clip.
SimStates ==
    {[q |-> <<0, 50, -50>>, dq |-> <<0, 0, 0>>,
      quat |-> <<0, 0, 0, 100>>, base_ang_vel |-> <<0, 0, 0>>],
     [q |-> <<30, 2050, -2050>>, dq |-> <<0, 40000, -200>>,
      quat |-> <<0, 0, 100, 0>>, base_ang_vel |-> <<0, 1900, -2500>>]}

\* What cmd_manager.update(dt) can return: (x_vel, y_vel, yaw_vel).
Commands == {<<50, 0, 0>>, <<1000, -1000, 2000>>}

\* What the inference backend can return: vectors of the right length (inside
\* and outside the action clip) and of the wrong lengths 0, 1 and 3.
PolicyOutputs ==
    {<<20, -20>>, <<2000, -2000>>, <<>>, <<30>>, <<10, 20, 30>>}

\* -------------------------------------------------------- GaitPhaseClock
\* math.sin and math.cos of 2 * pi * num / den, for the phases that are whole
\* quarter turns (dt and cycle_time make every phase one).
QuarterTurns(num, den) == ((4 * num) \div den) % 4
Sin2Pi(num, den) == <<0, One, 0, -One>>[QuarterTurns(num, den) + 1]
Cos2Pi(num, den) == <<One, 0, -One, 0>>[QuarterTurns(num, den) + 1]

\* ------------------------------------------------------- _quat_to_euler
\* np.arctan2 and np.arcsin where the model's quaternions need them: on the
\* axes, and at -1, 0 and 1.
Arctan2(y, x) ==
    CASE y = 0 /\ x >= 0 -> 0
      [] y = 0 /\ x < 0 -> Pi
      [] y > 0 /\ x = 0 -> Pi \div 2
      [] y < 0 /\ x = 0 -> -(Pi \div 2)
Arcsin(s) ==
    CASE s = 0 -> 0
      [] s = One -> Pi \div 2
      [] s = -One -> -(Pi \div 2)

quat_to_euler(quat) ==
    LET x == quat[1]
        y == quat[2]
        z == quat[3]
        w == quat[4]
        sinr_cosp == 2 * (FMul(w, x) + FMul(y, z))
        cosr_cosp == One - 2 * (FMul(x, x) + FMul(y, y))
        sinp == 2 * (FMul(w, y) - FMul(z, x))
        siny_cosp == 2 * (FMul(w, z) + FMul(x, y))
        cosy_cosp == One - 2 * (FMul(y, y) + FMul(z, z))
    IN  <<Arctan2(sinr_cosp, cosr_cosp),
          Arcsin(Clip(sinp, -One, One)),
          Arctan2(siny_cosp, cosy_cosp)>>

\* eu_ang[eu_ang > math.pi] -= 2 * math.pi
WrapUpper(a) == IF a > Pi THEN a - 2 * Pi ELSE a
WrapUpperVec(v) == Vec([i \in 1..Len(v) |-> WrapUpper(v[i])])

\* ------------------------------------------------------------ Controller
\* The numpy arrays the controller's three action attributes refer to: `arrays`
\* maps an array's identity to its contents, and an attribute holds an identity.
FreshId(arrays) ==
    CHOOSE i \in 0..Cardinality(DOMAIN arrays) :
        i \notin DOMAIN arrays /\ \A j \in 0..(i - 1) : j \in DOMAIN arrays
NewArray(arrays, v) ==
    [arrays |-> arrays @@ (FreshId(arrays) :> v), id |-> FreshId(arrays)]
\* a.copy(): a new array with the contents of a.
CopyArrayMutantAlias(arrays, id) == [arrays |-> arrays, id |-> id]
CopyArray(arrays, id) == NewArray(arrays, arrays[id])
\* The arrays still referred to.
Live(arrays, ids) == [i \in (DOMAIN arrays) \cap ids |-> arrays[i]]

\* deque(maxlen).append(x): x goes last, and the oldest entry is dropped when the
\* deque held maxlen entries.
DequeAppendMutantNoEvict(d, x, maxlen) == Append(d, x)
DequeAppend(d, x, maxlen) ==
    IF maxlen = 0 THEN <<>>
    ELSE IF Len(d) >= maxlen THEN Append(Tail(d), x)
    ELSE Append(d, x)

\* Controller.__init__: the attributes it sets.
ControllerInit(c) ==
    [obs_history |-> Vec([i \in 1..c.frame_stack |-> Zeros(c.num_single_obs)]),
     arrays |-> (0 :> Zeros(c.num_actions)) @@ (1 :> Zeros(c.num_actions))
                @@ (2 :> Zeros(c.num_actions)),
     last_actions |-> 0,
     last_last_actions |-> 1,
     action |-> 2,
     default_dof_pos |-> Robot.default_standing]

\* The slices _process_observation assigns, in order: obs[0, lo:hi] for the phase
\* (sin, cos), the commands, the joint positions, the joint velocities, the
\* previous action, the base angular velocity and the Euler angles.
ObsSlices(n) ==
    <<[lo |-> 0, hi |-> 1],
      [lo |-> 1, hi |-> 2],
      [lo |-> 2, hi |-> 5],
      [lo |-> 5, hi |-> n + 5],
      [lo |-> n + 5, hi |-> 2 * n + 5],
      [lo |-> 2 * n + 5, hi |-> 3 * n + 5],
      [lo |-> 3 * n + 5, hi |-> 3 * n + 5 + 3],
      [lo |-> 3 * n + 5 + 3, hi |-> 3 * n + 5 + 2 * 3]>>

\* What is assigned to them.
ObsValues(c, st, count, command, prev_action, default_pos) ==
    <<<<Sin2Pi(count * c.dt, c.cycle_time)>>,
      <<Cos2Pi(count * c.dt, c.cycle_time)>>,
      <<FMul(command[1], c.lin_vel), FMul(command[2], c.lin_vel),
        FMul(command[3], c.ang_vel)>>,
      VScale(VSub(LastN(st.q, c.num_actions), default_pos), c.dof_pos),
      VScale(LastN(st.dq, c.num_actions), c.dof_vel),
      prev_action,
      st.base_ang_vel,
      WrapUpperVec(quat_to_euler(st.quat))>>

\* Controller._process_observation: obs starts as zeros, the assignments are made
\* one after the other (so an entry holds what the last assignment covering it
\* wrote) and the result is clipped; ok is FALSE when q - default_dof_pos or an
\* assignment raises.
process_observation(c, st, count, command, prev_action, default_pos) ==
    LET slices == ObsSlices(c.num_actions)
        values == ObsValues(c, st, count, command, prev_action, default_pos)
        len == c.num_single_obs
        Writers(i) == {k \in 1..Len(slices) : InSlice(len, slices[k].lo, slices[k].hi, i)}
        Last(ks) == CHOOSE k \in ks : \A m \in ks : m <= k
        Entry(i) == IF Writers(i) = {} THEN 0
                    ELSE At(values[Last(Writers(i))], i - slices[Last(Writers(i))].lo)
    IN  IF /\ Broadcasts({Len(LastN(st.q, c.num_actions)), Len(default_pos)})
           /\ \A k \in 1..Len(slices) :
                SliceAssignOk(len, slices[k].lo, slices[k].hi, values[k])
        THEN [ok |-> TRUE,
              obs |-> ClipVec(Vec([i \in 1..len |-> Entry(i - 1)]),
                              -c.clip_observations, c.clip_observations)]
        ELSE [ok |-> FALSE, obs |-> <<>>]

\* self.obs_history.append(obs)
PushObservation(c, ctl, obs) ==
    [ctl EXCEPT !.obs_history = DequeAppend(ctl.obs_history, obs, c.frame_stack)]

\* The stacking loop of compute_action: slot i of policy_input is obs_history[i].
StackFrames(c, hist) ==
    Flatten(Vec([i \in 1..c.frame_stack |-> hist[i]]))

\* Controller._pd_control: kp * (target_q + default - q) + kd * (target_dq - dq),
\* elementwise over operands that must broadcast together.
PdLens(target_q, q, kp, target_dq, dq, kd, default) ==
    {Len(target_q), Len(q), Len(kp), Len(target_dq), Len(dq), Len(kd), Len(default)}
pd_control(target_q, q, kp, target_dq, dq, kd, default) ==
    Vec([i \in 1..BroadcastLen(PdLens(target_q, q, kp, target_dq, dq, kd, default)) |->
            FMul(At(kp, i - 1), At(target_q, i - 1) + At(default, i - 1) - At(q, i - 1))
            + FMul(At(kd, i - 1), At(target_dq, i - 1) - At(dq, i - 1))])

\* The action-history rotation of compute_action:
\*   self.last_last_actions = self.last_actions.copy()
\*   self.last_actions = self.action.copy()
RotateActions(ctl) ==
    LET h1 == CopyArray(ctl.arrays, ctl.last_actions)
        h2 == CopyArray(h1.arrays, ctl.action)
    IN  [ctl EXCEPT !.arrays = h2.arrays,
                    !.last_last_actions = h1.id,
                    !.last_actions = h2.id]

\* self.action[:] = out writes into the array self.action refers to (out must
\* have num_actions entries or one); then
\* self.action = np.clip(self.action, -clip_actions, clip_actions) is a new array.
StoreActionOk(c, ctl, out) ==
    SliceAssignOk(Len(ctl.arrays[ctl.action]), 0, c.num_actions, out)
StoreAction(c, ctl, out) ==
    LET written == [ctl.arrays EXCEPT ![ctl.action] =
                        SliceAssign(ctl.arrays[ctl.action], 0, c.num_actions, out)]
        clipped == NewArray(written,
                            ClipVec(written[ctl.action], -c.clip_actions, c.clip_actions))
    IN  [ctl EXCEPT !.arrays = clipped.arrays, !.action = clipped.id]

\* The arrays no attribute refers to any more are dropped.
Collect(ctl) ==
    [ctl EXCEPT !.arrays =
        Live(ctl.arrays, {ctl.action, ctl.last_actions, ctl.last_last_actions})]

\* The rest of compute_action: the target positions, the PD torque and its clip
\* to the torque limits; ok is FALSE when the operands do not broadcast together.
Torque(c, ctl, st) ==
    LET target_dof_pos == VScale(ctl.arrays[ctl.action], c.action_scale)
        q == LastN(st.q, c.num_actions)
        dq == LastN(st.dq, c.num_actions)
        target_dq == Zeros(c.num_actions)
        lens == PdLens(target_dof_pos, q, c.kps, target_dq, dq, c.kds,
                       Robot.default_standing)
        t == pd_control(target_dof_pos, q, c.kps, target_dq, dq, c.kds,
                        Robot.default_standing)
    IN  IF Broadcasts(lens) /\ Broadcasts({BroadcastLen(lens), Len(c.tau_limit)})
        THEN [ok |-> TRUE,
              tau |-> Vec([i \in 1..BroadcastLen({Len(t), Len(c.tau_limit)}) |->
                             Clip(At(t, i - 1), -At(c.tau_limit, i - 1),
                                  At(c.tau_limit, i - 1))])]
        ELSE [ok |-> FALSE, tau |-> <<>>]

\* ------------------------------------------------------- PolicyWrapper
\* "sub" in path.
Contains(path, sub) ==
    \E i \in 0..(Len(path) - Len(sub)) : SubSeq(path, i + 1, i + Len(sub)) = sub
EndsWith(path, suffix) ==
    /\ Len(path) >= Len(suffix)
    /\ SubSeq(path, Len(path) - Len(suffix) + 1, Len(path)) = suffix

\* The format of the artifact a path names: what its extension declares and its
\* contents are.
ArtifactFormat(path) ==
    IF EndsWith(path, <<".", "p", "t">>) THEN "pt"
    ELSE IF EndsWith(path, <<".", "o", "n", "n", "x">>) THEN "onnx"
    ELSE "other"

\* PolicyWrapper._load_policy: the loader the path selects, and what the loader
\* does with the artifact (torch.jit.load and ort.InferenceSession each load
\* their own format and raise on any other).
load_policy(path) ==
    LET chosen == IF Contains(path, <<"p", "t">>) THEN "pt"
                  ELSE IF Contains(path, <<"o", "n", "n", "x">>) THEN "onnx"
                  ELSE "none"
    IN  IF chosen = "none"
        THEN [raised |-> TRUE, error |-> "ValueError", backend |-> "none"]
        ELSE IF chosen # ArtifactFormat(path)
        THEN [raised |-> TRUE, error |-> "LoaderError", backend |-> "none"]
        ELSE [raised |-> FALSE, error |-> "", backend |-> chosen]

\* ------------------------------------------------------ MujocoSimulator
\* MujocoSimulator._initialize_state on a scene: MjData starts at the model's
\* qpos0; the keyframe, when the scene has one, replaces it.
initialize_state(sc) ==
    IF sc.has_keyframe
    THEN [qpos |-> sc.key_qpos, default_qpos |-> sc.key_qpos, warned |-> FALSE]
    ELSE [qpos |-> sc.qpos0, default_qpos |-> Zeros(Len(sc.qpos0)), warned |-> TRUE]

\* ---------------------------------------------------------- run_simulation
VARIABLES
    cfg,          \* the Sim2simCfg passed to run_simulation
    policy_path,  \* the policy artifact's path, a sequence of characters
    scene,        \* the physics scene: its keyframe (if any) and its qpos0
    pc,           \* where run_simulation is
    failed_at,    \* the stage whose exception ended the run ("" while none has)
    error,        \* that exception
    sim,          \* MujocoSimulator: qpos as _initialize_state left it, default_qpos
    backend,      \* PolicyWrapper: the loaded policy's kind
    ctl,          \* Controller: obs_history, the action arrays, default_dof_pos
    cmd,          \* controller.x_vel_cmd, y_vel_cmd, yaw_vel_cmd
    state,        \* the SimulationState read in this iteration
    count,        \* the loop variable
    tau,          \* the torque compute_action returned last
    policy_input, \* the policy input compute_action built last
    log           \* history: what has been called, pushed and returned so far

vars == <<cfg, policy_path, scene, pc, failed_at, error, sim, backend, ctl, cmd,
          state, count, tau, policy_input, log>>

NoController ==
    [obs_history |-> <<>>, arrays |-> <<>>, last_actions |-> -1,
     last_last_actions |-> -1, action |-> -1, default_dof_pos |-> <<>>]
NoState == [q |-> <<>>, dq |-> <<>>, quat |-> <<>>, base_ang_vel |-> <<>>]

\* range(int(cfg.sim_duration / cfg.dt))
HorizonMutantCeil(c) == (c.sim_duration + c.dt - 1) \div c.dt
Horizon(c) == IntDiv(c.sim_duration, c.dt)
\* count % cfg.decimation == 0
IsControlTickMutantAlways(c, n) == TRUE
IsControlTick(c, n) == n % c.decimation = 0
\* simulator.close() and cmd_manager.close(), as the history records them.
Release(closes, who) == Append(closes, who)

c_frame_stack == 3
Decimations == {2, 3}
DefaultPath == <<"m", ".", "p", "t">>
DefaultScene ==
    [has_keyframe |-> TRUE, qpos0 |-> <<0, 0, 0>>, key_qpos |-> <<30, 50, -50>>]

InitWith(cfgs, paths, scenes) ==
    /\ cfg \in cfgs
    /\ policy_path \in paths
    /\ scene \in scenes
    /\ pc = "create_simulator"
    /\ failed_at = ""
    /\ error = ""
    /\ sim = [created |-> FALSE, qpos |-> <<>>, default_qpos |-> <<>>, warned |-> FALSE]
    /\ backend = "none"
    /\ ctl = NoController
    /\ cmd = <<>>
    /\ state = NoState
    /\ count = 0
    /\ tau = <<>>
    /\ policy_input = <<>>
    /\ log = [loads |-> 0, updates |-> 0, get_states |-> 0, computes |-> 0,
              steps |-> 0, closes |-> <<>>, pushed |-> <<>>, actions |-> <<>>,
              ticks |-> <<>>, outputs |-> <<>>]

Init ==
    InitWith({Sim2simCfg(StackDepth, c_frame_stack, d, t, k) :
                 d \in 1..MaxSimDuration, t \in 1..MaxDt, k \in Decimations},
             {DefaultPath}, {DefaultScene})

\* An unhandled exception leaves run_simulation: nothing after it runs.
RaiseMutantFinally(stage, err) ==
    /\ pc' = "close_simulator"
    /\ failed_at' = stage
    /\ error' = err
Raise(stage, err) ==
    /\ pc' = "failed"
    /\ failed_at' = stage
    /\ error' = err

\* simulator = MujocoSimulator(model_path, cfg)
CreateSimulator ==
    /\ pc = "create_simulator"
    /\ LET r == initialize_state(scene)
       IN  sim' = [created |-> TRUE, qpos |-> r.qpos,
                   default_qpos |-> r.default_qpos, warned |-> r.warned]
    /\ pc' = "load_policy"
    /\ UNCHANGED <<cfg, policy_path, scene, failed_at, error, backend, ctl, cmd,
                   state, count, tau, policy_input, log>>

\* policy = PolicyWrapper(policy_path)
LoadPolicy ==
    /\ pc = "load_policy"
    /\ log' = [log EXCEPT !.loads = @ + 1]
    /\ LET r == load_policy(policy_path)
       IN  IF r.raised
           THEN /\ Raise("load_policy", r.error)
                /\ UNCHANGED backend
           ELSE /\ backend' = r.backend
                /\ pc' = "create_controller"
                /\ UNCHANGED <<failed_at, error>>
    /\ UNCHANGED <<cfg, policy_path, scene, sim, ctl, cmd, state, count, tau,
                   policy_input>>

\* controller = Controller(cfg, policy)
CreateController ==
    /\ pc = "create_controller"
    /\ ctl' = ControllerInit(cfg)
    /\ pc' = "create_cmd_manager"
    /\ UNCHANGED <<cfg, policy_path, scene, failed_at, error, sim, backend, cmd,
                   state, count, tau, policy_input, log>>

\* cmd_manager = CommandManager(num_envs=1, mode=command_mode)
CreateCommandManager ==
    /\ pc = "create_cmd_manager"
    /\ pc' = "loop"
    /\ UNCHANGED <<cfg, policy_path, scene, failed_at, error, sim, backend, ctl,
                   cmd, state, count, tau, policy_input, log>>

\* for count in range(...): the next iteration starts, or the loop is over.
LoopHead ==
    /\ pc = "loop"
    /\ IF count < Horizon(cfg)
       THEN /\ pc' = "update_command"
            /\ log' = [log EXCEPT !.ticks = Append(@, count)]
       ELSE /\ pc' = "close_simulator"
            /\ UNCHANGED log
    /\ UNCHANGED <<cfg, policy_path, scene, failed_at, error, sim, backend, ctl,
                   cmd, state, count, tau, policy_input>>

\* commands = cmd_manager.update(cfg.dt); controller.x_vel_cmd = ... (and y, yaw)
UpdateCommand ==
    /\ pc = "update_command"
    /\ \E c \in Commands : cmd' = c
    /\ log' = [log EXCEPT !.updates = @ + 1]
    /\ pc' = "get_state"
    /\ UNCHANGED <<cfg, policy_path, scene, failed_at, error, sim, backend, ctl,
                   state, count, tau, policy_input>>

\* state = simulator.get_state()
GetState ==
    /\ pc = "get_state"
    /\ \E s \in SimStates : state' = s
    /\ log' = [log EXCEPT !.get_states = @ + 1]
    /\ pc' = "control"
    /\ UNCHANGED <<cfg, policy_path, scene, failed_at, error, sim, backend, ctl,
                   cmd, count, tau, policy_input>>

\* if count % cfg.decimation == 0: tau = controller.compute_action(state, count),
\* the inference backend answering `out`.  The call raises where an assignment
\* does not fit (in _process_observation, at self.action[:] = ..., in the torque),
\* and what it had changed by then stays changed.
ComputeAction ==
    /\ pc = "control"
    /\ IsControlTick(cfg, count)
    /\ \E out \in PolicyOutputs :
       \E o \in {process_observation(cfg, state, count, cmd, ctl.arrays[ctl.action],
                                     ctl.default_dof_pos)} :
         IF ~o.ok
         THEN /\ Raise("compute_action", "ValueError")
              /\ log' = [log EXCEPT !.computes = @ + 1]
              /\ UNCHANGED <<ctl, tau, policy_input>>
         ELSE \E pushed \in {PushObservation(cfg, ctl, o.obs)} :
              \E rotated \in {RotateActions(pushed)} :
                /\ policy_input' = StackFrames(cfg, pushed.obs_history)
                /\ IF ~StoreActionOk(cfg, rotated, out)
                   THEN /\ Raise("compute_action", "ValueError")
                        /\ ctl' = Collect(rotated)
                        /\ log' = [log EXCEPT !.computes = @ + 1,
                                              !.outputs = Append(@, out),
                                              !.pushed = Append(@, o.obs)]
                        /\ UNCHANGED tau
                   ELSE \E stored \in {Collect(StoreAction(cfg, rotated, out))} :
                        \E torque \in {Torque(cfg, stored, state)} :
                          /\ ctl' = stored
                          /\ IF ~torque.ok
                             THEN /\ Raise("compute_action", "ValueError")
                                  /\ log' = [log EXCEPT !.computes = @ + 1,
                                                        !.outputs = Append(@, out),
                                                        !.pushed = Append(@, o.obs)]
                                  /\ UNCHANGED tau
                             ELSE /\ tau' = torque.tau
                                  /\ pc' = "step"
                                  /\ log' = [log EXCEPT
                                        !.computes = @ + 1,
                                        !.outputs = Append(@, out),
                                        !.pushed = Append(@, o.obs),
                                        !.actions = Append(@, stored.arrays[stored.action])]
                                  /\ UNCHANGED <<failed_at, error>>
    /\ UNCHANGED <<cfg, policy_path, scene, sim, backend, cmd, state, count>>

\* simulator.step(tau), which ends a decimated iteration
Step ==
    /\ pc = "step"
    /\ log' = [log EXCEPT !.steps = @ + 1]
    /\ count' = count + 1
    /\ pc' = "loop"
    /\ UNCHANGED <<cfg, policy_path, scene, failed_at, error, sim, backend, ctl,
                   cmd, state, tau, policy_input>>

\* An iteration whose count is no multiple of the decimation ends here.
HoldTick ==
    /\ pc = "control"
    /\ ~IsControlTick(cfg, count)
    /\ count' = count + 1
    /\ pc' = "loop"
    /\ UNCHANGED <<cfg, policy_path, scene, failed_at, error, sim, backend, ctl,
                   cmd, state, tau, policy_input, log>>

\* simulator.close()
CloseSimulator ==
    /\ pc = "close_simulator"
    /\ log' = [log EXCEPT !.closes = Release(@, "simulator")]
    /\ pc' = "close_cmd_manager"
    /\ UNCHANGED <<cfg, policy_path, scene, failed_at, error, sim, backend, ctl,
                   cmd, state, count, tau, policy_input>>

\* cmd_manager.close()
CloseCommandManager ==
    /\ pc = "close_cmd_manager"
    /\ log' = [log EXCEPT !.closes = Release(@, "cmd_manager")]
    /\ pc' = "done"
    /\ UNCHANGED <<cfg, policy_path, scene, failed_at, error, sim, backend, ctl,
                   cmd, state, count, tau, policy_input>>

\* A call into a collaborator raises: loading the scene, building the controller
\* or the command manager, reading the command or the state, stepping.
ExternalStages ==
    {"create_simulator", "create_controller", "create_cmd_manager",
     "update_command", "get_state", "step"}
CollaboratorRaises ==
    /\ pc \in ExternalStages
    /\ Raise(pc, "RuntimeError")
    /\ UNCHANGED <<cfg, policy_path, scene, sim, backend, ctl, cmd, state, count,
                   tau, policy_input, log>>

Next ==
    \/ CreateSimulator
    \/ LoadPolicy
    \/ CreateController
    \/ CreateCommandManager
    \/ LoopHead
    \/ UpdateCommand
    \/ GetState
    \/ ComputeAction
    \/ Step
    \/ HoldTick
    \/ CloseSimulator
    \/ CloseCommandManager
    \/ CollaboratorRaises

Spec == Init /\ [][Next]_vars

\* ------------------------------------------- the other configurations
\* One short run (three iterations, two of them decimated), for the
\* specifications that vary something else.
ShortRun(cfs) == Sim2simCfg(StackDepth, cfs, 3, 1, 2)

\* Every c_frame_stack around the default.
InitCfg == InitWith({ShortRun(k) : k \in {2, 3, 4}}, {DefaultPath}, {DefaultScene})
SpecCfg == InitCfg /\ [][Next]_vars

\* Artifact paths: a directory ("", "opt/", "onnx/"), a stem and an extension.
Paths ==
    {dir \o <<"m">> \o ext :
        dir \in {<<>>, <<"o", "p", "t", "/">>, <<"o", "n", "n", "x", "/">>},
        ext \in {<<".", "p", "t">>, <<".", "o", "n", "n", "x">>,
                 <<".", "b", "i", "n">>}}
InitPath == InitWith({ShortRun(c_frame_stack)}, Paths, {DefaultScene})
SpecPath == InitPath /\ [][Next]_vars

\* Scenes with and without the keyframe "default"; qpos0 is all zeros, or holds
\* the 1.0 of a free joint's unit quaternion.
Scenes ==
    {[has_keyframe |-> k, qpos0 |-> q0, key_qpos |-> <<30, 50, -50>>] :
        k \in BOOLEAN, q0 \in {<<0, 0, 0>>, <<100, 0, 0>>}}
InitScene == InitWith({ShortRun(c_frame_stack)}, {DefaultPath}, Scenes)
SpecScene == InitScene /\ [][Next]_vars

\* ------------------------------------------------------------- the claims
\* How many of 0 .. k-1 are multiples of d.
Multiples(k, d) == Cardinality({i \in 0..(k - 1) : i % d = 0})
LoopOver == pc \in {"close_simulator", "close_cmd_manager", "done"}
Constructed == ctl # NoController

\* C1: in a run that has not failed, compute_action and simulator.step have each
\* run once for every finished iteration whose count is a multiple of the
\* decimation and for no other (a step is pending only at such a count), while
\* the command and the state have been read once in every iteration; so a loop of
\* H iterations makes Multiples(H, decimation) steps and H reads of each kind.
C1_DecimationGate ==
    pc # "failed" =>
        /\ log.steps = Multiples(count, cfg.decimation)
        /\ log.computes = log.steps + (IF pc = "step" THEN 1 ELSE 0)
        /\ pc = "step" => count % cfg.decimation = 0
        /\ log.updates = count + (IF pc \in {"get_state", "control", "step"} THEN 1 ELSE 0)
        /\ log.get_states = count + (IF pc \in {"control", "step"} THEN 1 ELSE 0)
        /\ LoopOver =>
            /\ count = Len(log.ticks)
            /\ log.steps = Multiples(Len(log.ticks), cfg.decimation)
            /\ log.updates = Len(log.ticks)
            /\ log.get_states = Len(log.ticks)
\* A finished loop of five iterations at decimation 2: three steps, five reads.
C1_Witness ==
    /\ pc = "done"
    /\ Len(log.ticks) = 5
    /\ cfg.decimation = 2
    /\ log.steps = 3
    /\ log.get_states = 5

\* C2: once the controller is built and after k compute_action calls, obs_history
\* holds frame_stack frames: all-zero frames first, then the last
\* min(k, frame_stack) frames pushed, in push order; and the policy input built
\* by the last call is these frames one after the other, slot i being
\* obs_history[i], so the frame encoded by that call is the last slot.
C2_ObsHistory ==
    Constructed =>
        LET fs == cfg.frame_stack
            n == cfg.num_single_obs
            k == Len(log.pushed)
            kept == IF k < fs THEN k ELSE fs
        IN  /\ k = log.computes
            /\ Len(ctl.obs_history) = fs
            /\ \A i \in 1..fs :
                 ctl.obs_history[i] =
                    IF i <= fs - kept THEN [j \in 1..n |-> 0]
                    ELSE log.pushed[k - fs + i]
            /\ k > 0 =>
                 /\ Len(policy_input) = fs * n
                 /\ \A i \in 1..fs : \A j \in 1..n :
                      policy_input[(i - 1) * n + j] = ctl.obs_history[i][j]
                 /\ SubSeq(policy_input, (fs - 1) * n + 1, fs * n) = log.pushed[k]
\* More frames pushed than the history holds, the oldest two of them different.
C2_Witness ==
    /\ Constructed
    /\ Len(log.pushed) > cfg.frame_stack
    /\ log.pushed[1] # log.pushed[2]
    /\ ctl.obs_history[1] # ctl.obs_history[cfg.frame_stack]

\* C3 (as claimed): for every c_frame_stack, every compute_action call encodes an
\* observation, each observation has 11 + 3 * num_actions entries, which is
\* num_single_obs and the end of the last field written, and the policy input
\* has frame_stack times as many.
C3_Claim ==
    LET n == cfg.num_actions
        fields == ObsSlices(n)
    IN  /\ Len(log.pushed) = log.computes
        /\ \A i \in 1..Len(log.pushed) :
             /\ Len(log.pushed[i]) = 11 + 3 * n
             /\ cfg.num_single_obs = 11 + 3 * n
             /\ fields[1].lo = 0
             /\ \A f \in 2..Len(fields) : fields[f].lo = fields[f - 1].hi
             /\ fields[Len(fields)].hi = Len(log.pushed[i])
        /\ policy_input # <<>> => Len(policy_input) = cfg.frame_stack * (11 + 3 * n)

C5_Claim ==
    \A i \in 1..Len(log.outputs) :
        Len(log.outputs[i]) # cfg.num_actions =>
            /\ pc = "failed"
            /\ failed_at = "compute_action"
            /\ i = Len(log.outputs)

\* C6: the simulator is closed first and the command source second, each once,
\* and only after the last iteration, when every read and step of the run has
\* been made; a run that a raising stage ended has closed neither; and nothing
\* stands between the end of the loop and the two closes.
C6_Release ==
    /\ pc = "done" => log.closes = <<"simulator", "cmd_manager">>
    /\ pc = "close_cmd_manager" => log.closes = <<"simulator">>
    /\ pc \notin {"done", "close_cmd_manager"} => log.closes = <<>>
    /\ failed_at # "" => log.closes = <<>> /\ pc = "failed"
    /\ log.closes # <<>> =>
         /\ count = cfg.sim_duration \div cfg.dt
         /\ Len(log.ticks) = count
         /\ log.updates = count
         /\ log.get_states = count
         /\ log.steps = log.computes
    /\ pc = "loop" => ENABLED LoopHead
    /\ pc = "close_simulator" => ENABLED CloseSimulator
    /\ pc = "close_cmd_manager" => ENABLED CloseCommandManager
\* A run of five iterations that ended with both closed, in order.
C6_Witness ==
    /\ pc = "done"
    /\ failed_at = ""
    /\ log.closes = <<"simulator", "cmd_manager">>
    /\ log.get_states = 5
    /\ log.steps = 3

Ceil(a, b) == (a + b - 1) \div b
\* C7 (as claimed): a loop that is over has run ceil(sim_duration / dt)
\* iterations.
C7_Original == LoopOver => Len(log.ticks) = Ceil(cfg.sim_duration, cfg.dt)
\* C7 (amended): the counter takes the values 0, 1, 2, ... in order, and a loop
\* that is over has run int(sim_duration / dt) iterations, the quotient with its
\* fraction dropped.
C7_Amended ==
    /\ \A i \in 1..Len(log.ticks) : log.ticks[i] = i - 1
    /\ Len(log.ticks) <= cfg.sim_duration \div cfg.dt
    /\ LoopOver => Len(log.ticks) = cfg.sim_duration \div cfg.dt
\* sim_duration 5 at dt 2: two iterations, not three.
C7_Witness ==
    /\ pc = "done"
    /\ cfg.sim_duration = 5
    /\ cfg.dt = 2
    /\ log.ticks = <<0, 1>>

\* C8 (as claimed): the policy is loaded once; an onnx artifact is loaded by the
\* onnx backend whatever else its path holds; and an artifact of neither format
\* fails the construction with the configuration error, before any iteration.
C8_Claim ==
    /\ log.loads <= 1
    /\ log.loads = 1 =>
         /\ ArtifactFormat(policy_path) = "onnx" => backend = "onnx"
         /\ ArtifactFormat(policy_path) = "pt" => backend = "pt"
         /\ ArtifactFormat(policy_path) = "other" =>
              /\ failed_at = "load_policy"
              /\ error = "ValueError"
              /\ log.ticks = <<>>

\* C9 (as claimed): the simulator is created whether or not the scene has the
\* keyframe; without it a warning is printed and both the qpos the simulation
\* starts from and default_qpos are all zeros; with it both are the keyframe's.
C9_Claim ==
    sim.created =>
        IF scene.has_keyframe
        THEN sim.qpos = scene.key_qpos /\ sim.default_qpos = scene.key_qpos
        ELSE /\ sim.warned
             /\ sim.default_qpos = [i \in 1..Len(scene.qpos0) |-> 0]
             /\ sim.qpos = [i \in 1..Len(scene.qpos0) |-> 0]

\* C10: with a_k the k-th returned call's policy output, written over the action
\* vector and clipped to clip_actions, and a_0 = a_-1 = 0: after k calls have
\* returned the controller holds action = a_k, last_actions = a_(k-1) and
\* last_last_actions = a_(k-2), in three different arrays; and the previous-action
\* field of the frame the i-th call encoded is a_(i-1) as it stands.
ActionAt(i) == IF i <= 0 THEN [j \in 1..cfg.num_actions |-> 0] ELSE log.actions[i]
C10_ActionHistory ==
    (Constructed /\ failed_at # "compute_action") =>
        LET k == Len(log.actions)
            n == cfg.num_actions
        IN  /\ ctl.arrays[ctl.action] = ActionAt(k)
            /\ ctl.arrays[ctl.last_actions] = ActionAt(k - 1)
            /\ ctl.arrays[ctl.last_last_actions] = ActionAt(k - 2)
            /\ Cardinality({ctl.action, ctl.last_actions, ctl.last_last_actions}) = 3
            /\ \A i \in 1..k :
                 /\ Len(log.outputs[i]) \in {1, n}
                 /\ \A j \in 1..n :
                      LET raw == log.outputs[i][IF Len(log.outputs[i]) = 1 THEN 1 ELSE j]
                      IN  log.actions[i][j] =
                            IF raw < -cfg.clip_actions THEN -cfg.clip_actions
                            ELSE IF raw > cfg.clip_actions THEN cfg.clip_actions
                            ELSE raw
            /\ \A i \in 1..Len(log.pushed) :
                 SubSeq(log.pushed[i], 2 * n + 6, 3 * n + 5) = ActionAt(i - 1)
\* Three calls returned, with three different actions.
C10_Witness ==
    /\ Constructed
    /\ Len(log.actions) = 3
    /\ Cardinality({log.actions[1], log.actions[2], log.actions[3]}) = 3
    /\ ctl.arrays[ctl.last_last_actions] = log.actions[1]
    /\ pc = "loop"
====
